---- MODULE Spec2Model ----
(***************************************************************************)
(* TimeFlow front end: the session store (AuthProvider), the API client    *)
(* (api.js interceptors), the route guards (ProtectedRoute, PublicRoute)   *)
(* and the route table (AppRoutes), as one state machine.                  *)
(*                                                                         *)
(* Spec      - the running application: page loads, in-app navigation,     *)
(*             login / register / logout, the identity fetch, screen       *)
(*             requests and their responses.                               *)
(* SpecLive  - Spec with every identity fetch eventually answered.         *)
(* SpecPure  - the pure functions (request interceptor, role -> home       *)
(*             route maps, canAccess, parseErrorMessage, getNavItems,      *)
(*             isActive) applied to inputs drawn from bounded sets.        *)
(* SpecBusinesses - the Businesses screen: list fetch and status toggle.   *)
(* SpecJoin  - the screens that load with several joined fetches.          *)
(* SpecNotifications - the unread count of the layout.                     *)
(* SpecMutations - the handlers that send a mutating call.                 *)
(* SpecUsers - the Users screen: edit and status toggle.                   *)
(* SpecBooking - the public booking form of the landing page.              *)
(***************************************************************************)
EXTENDS Naturals, Sequences, FiniteSets, Bags, TLC

VARIABLES
    ls,            \* localStorage 'token' (the durable token), NoToken when absent
    token,         \* AuthProvider state `token`
    user,          \* AuthProvider state `user` (identified by its role), NoUser when null
    loading,       \* AuthProvider state `loading`
    path,          \* window.location.pathname / router location
    inflight,      \* bag of requests sent and not yet answered
    hrefAssigned,  \* how often `window.location.href = '/login'` ran in this document
    last,          \* the last operation and the session it acted on
    fn,            \* SpecPure: the last pure function application, input and output
    scr            \* the screen specifications: the local state of the screen on display

vars == <<ls, token, user, loading, path, inflight, hrefAssigned, last, fn, scr>>

(***************************************************************************)
(* Bounds                                                                  *)
(***************************************************************************)
NumTokens == 1       \* distinct access tokens the backend hands out
MaxInflight == 2     \* requests in flight at one time
MaxHref == 2         \* forced redirects counted per document
MaxUrlLen == 3       \* length of the request URLs fed to the interceptor
MaxEntries == 2      \* entries of a validation-error list
NumBusinesses == 2   \* businesses the backend holds
MaxPending == 2      \* requests of one screen in flight at one time
MaxRounds == 2       \* joined fetches one screen runs, the mount's included
MaxUnread == 2       \* unread notifications the backend holds for the user
NumUsers == 2        \* users the backend holds

NoToken == 0
Tokens == 1..NumTokens
NoUser == "none"
\* a location is the sequence of its path segments: /admin/users is
\* <<"admin", "users">>, / is the empty sequence
Root == << >>
Top(p) == IF p = Root THEN "" ELSE p[1]
KnownRoles == {"super_admin", "admin", "business", "staff", "client"}
Roles == KnownRoles \cup {"unknown"}
\* role values looked up in the redirect maps: a role outside the five, or no role
RoleInputs == Roles \cup {"absent"}

(***************************************************************************)
(* Role -> home route, as written in three places                          *)
(***************************************************************************)
\* (a guard that sends every wrong role to '/')
ProtectedRedirect_Root(role) == Root

\* ProtectedRoute: redirectMap[user?.role] || '/'
ProtectedRedirect(role) ==
    CASE role = "super_admin" -> <<"admin">>
      [] role = "admin"       -> <<"admin">>
      [] role = "business"    -> <<"business">>
      [] role = "staff"       -> <<"staff">>
      [] role = "client"      -> <<"client">>
      [] OTHER                -> Root

\* PublicRoute: redirectMap[user?.role] || '/'
PublicRedirect(role) ==
    CASE role = "super_admin" -> <<"admin">>
      [] role = "admin"       -> <<"admin">>
      [] role = "business"    -> <<"business">>
      [] role = "staff"       -> <<"staff">>
      [] role = "client"      -> <<"client">>
      [] OTHER                -> Root

\* (a Login map without its super_admin entry)
LoginRedirect_NoSuperAdmin(role) ==
    CASE role = "admin"       -> <<"admin">>
      [] role = "business"    -> <<"business">>
      [] role = "staff"       -> <<"staff">>
      [] role = "client"      -> <<"client">>
      [] OTHER                -> Root

\* Login.handleSubmit: redirectMap[user.role] || '/'
LoginRedirect(role) ==
    CASE role = "super_admin" -> <<"admin">>
      [] role = "admin"       -> <<"admin">>
      [] role = "business"    -> <<"business">>
      [] role = "staff"       -> <<"staff">>
      [] role = "client"      -> <<"client">>
      [] OTHER                -> Root

(***************************************************************************)
(* Route table (AppRoutes)                                                 *)
(***************************************************************************)
Rt(p, g, a, s) == [path |-> p, guard |-> g, allowed |-> a, screen |-> s]

AdminRoles == {"super_admin", "admin"}

RouteTable ==
    { Rt(Root, "none", {}, "Landing"),
      Rt(<<"login">>, "public", {}, "Login"),
      Rt(<<"register">>, "public", {}, "Register"),
      Rt(<<"admin">>, "protected", AdminRoles, "Dashboard"),
      Rt(<<"admin", "businesses">>, "protected", AdminRoles, "Businesses"),
      Rt(<<"admin", "users">>, "protected", AdminRoles, "UsersPage"),
      Rt(<<"admin", "services">>, "protected", AdminRoles, "Services"),
      Rt(<<"admin", "staff">>, "protected", AdminRoles, "Staff"),
      Rt(<<"admin", "appointments">>, "protected", AdminRoles, "Appointments"),
      Rt(<<"admin", "clients">>, "protected", AdminRoles, "Clients"),
      Rt(<<"admin", "finance">>, "protected", AdminRoles, "Finance"),
      Rt(<<"admin", "platform-finance">>, "protected", AdminRoles, "PlatformFinance"),
      Rt(<<"admin", "reports">>, "protected", AdminRoles, "Reports"),
      Rt(<<"admin", "settings">>, "protected", AdminRoles, "Settings"),
      Rt(<<"business">>, "protected", {"business"}, "Dashboard"),
      Rt(<<"business", "services">>, "protected", {"business"}, "Services"),
      Rt(<<"business", "staff">>, "protected", {"business"}, "Staff"),
      Rt(<<"business", "appointments">>, "protected", {"business"}, "Appointments"),
      Rt(<<"business", "clients">>, "protected", {"business"}, "Clients"),
      Rt(<<"business", "finance">>, "protected", {"business"}, "Finance"),
      Rt(<<"business", "reports">>, "protected", {"business"}, "Reports"),
      Rt(<<"business", "settings">>, "protected", {"business"}, "Settings"),
      Rt(<<"staff">>, "protected", {"staff"}, "Dashboard"),
      Rt(<<"staff", "calendar">>, "protected", {"staff"}, "Appointments"),
      Rt(<<"staff", "settings">>, "protected", {"staff"}, "Settings"),
      Rt(<<"client">>, "protected", {"client"}, "Dashboard"),
      Rt(<<"client", "appointments">>, "protected", {"client"}, "Appointments"),
      Rt(<<"client", "settings">>, "protected", {"client"}, "Settings") }

DeclaredPaths == { r.path : r \in RouteTable }
GuardedPaths == { r.path : r \in { q \in RouteTable : q.guard = "protected" } }
AuthPaths == { r.path : r \in { q \in RouteTable : q.guard = "public" } }

\* paths under the four guarded prefixes that no Route declares, and one outside them
UndeclaredPaths ==
    { <<"admin", "calendar">>, <<"business", "users">>, <<"staff", "appointments">>,
      <<"client", "calendar">>, <<"nowhere">> }

Paths == DeclaredPaths \cup UndeclaredPaths

\* the Route a location matches: a declared path, else the catch-all `*`
MatchRoute(p) ==
    IF p \in DeclaredPaths
    THEN CHOOSE r \in RouteTable : r.path = p
    ELSE Rt(p, "catchall", {}, "")

(***************************************************************************)
(* Route guards                                                            *)
(***************************************************************************)
Spinner == [t |-> "spinner", to |-> Root, screen |-> ""]
RedirectTo(q) == [t |-> "redirect", to |-> q, screen |-> ""]
Render(s) == [t |-> "render", to |-> Root, screen |-> s]

\* the Identity is identified by its role: user?.role
RoleOf(u) == u
\* isAuthenticated: !!user
IsAuthenticated(u) == u # NoUser

\* (a guard that never compares the role)
ProtectedRoute_NoRoleCheck(u, l, allowedRoles, children) ==
    IF l THEN Spinner
    ELSE IF ~IsAuthenticated(u) THEN RedirectTo(<<"login">>)
    ELSE Render(children)

\* (a guard that takes a missing Identity for a wrong role)
ProtectedRoute_NoAuthCheck(u, l, allowedRoles, children) ==
    IF l THEN Spinner
    ELSE IF RoleOf(u) \notin allowedRoles THEN RedirectTo(ProtectedRedirect(RoleOf(u)))
    ELSE Render(children)

\* (a guard that decides while the session is still loading)
ProtectedRoute_NoSpinner(u, l, allowedRoles, children) ==
    IF ~IsAuthenticated(u) THEN RedirectTo(<<"login">>)
    ELSE IF RoleOf(u) \notin allowedRoles THEN RedirectTo(ProtectedRedirect(RoleOf(u)))
    ELSE Render(children)

ProtectedRoute(u, l, allowedRoles, children) ==
    IF l THEN Spinner
    ELSE IF ~IsAuthenticated(u) THEN RedirectTo(<<"login">>)
    ELSE IF RoleOf(u) \notin allowedRoles THEN RedirectTo(ProtectedRedirect(RoleOf(u)))
    ELSE Render(children)

\* (an inverse guard that lets an authenticated Identity through)
PublicRoute_NoRedirect(u, l, children) ==
    IF l THEN Spinner ELSE Render(children)

PublicRoute(u, l, children) ==
    IF l THEN Spinner
    ELSE IF IsAuthenticated(u) THEN RedirectTo(PublicRedirect(RoleOf(u)))
    ELSE Render(children)

\* what the matched Route's element yields for location p
Element(p, u, l) ==
    LET r == MatchRoute(p) IN
    CASE r.guard = "none"      -> Render(r.screen)
      [] r.guard = "public"    -> PublicRoute(u, l, r.screen)
      [] r.guard = "protected" -> ProtectedRoute(u, l, r.allowed, r.screen)
      [] OTHER                 -> RedirectTo(Root)

\* <Navigate replace> is followed until an element renders or spins
RECURSIVE Follow(_, _, _, _)
Follow(p, u, l, fuel) ==
    LET e == Element(p, u, l) IN
    IF e.t = "redirect" /\ fuel > 0 THEN Follow(e.to, u, l, fuel - 1) ELSE p

Settle(p, u, l) == Follow(p, u, l, 4)

\* what a navigation to p is answered with: the guard of the matched Route
\* and whether its element rendered, redirected or showed the spinner
\* (`after`: the operation a page load follows)
Decision(p, u, l, after) ==
    [top |-> Top(p), guard |-> MatchRoute(p).guard, t |-> Element(p, u, l).t,
     after |-> after]

\* the screen on display at the current location ("" while spinning)
Mounted == Element(path, user, loading).screen
LayoutMounted ==
    /\ MatchRoute(path).guard = "protected"
    /\ Element(path, user, loading).t = "render"

(***************************************************************************)
(* API client (api.js) and the HTTP client each screen module uses         *)
(***************************************************************************)
UrlChars == {"a", "/", "?"}
RECURSIVE SeqsUpTo(_)
SeqsUpTo(n) ==
    IF n = 0 THEN { <<>> }
    ELSE LET shorter == SeqsUpTo(n - 1) IN
         shorter \cup { Append(s, c) : s \in { q \in shorter : Len(q) = n - 1 }, c \in UrlChars }
Urls == SeqsUpTo(MaxUrlLen)

\* String.prototype.endsWith('/'), includes('?'), split('?')
EndsWithSlash(s) == Len(s) > 0 /\ s[Len(s)] = "/"
IncludesQ(s) == \E i \in 1..Len(s) : s[i] = "?"
FirstQ(s) == CHOOSE i \in 1..Len(s) : s[i] = "?" /\ \A j \in 1..(i - 1) : s[j] # "?"
RECURSIVE SplitQ(_)
SplitQ(s) ==
    IF ~IncludesQ(s) THEN << s >>
    ELSE << SubSeq(s, 1, FirstQ(s) - 1) >> \o SplitQ(SubSeq(s, FirstQ(s) + 1, Len(s)))

\* request interceptor, lines 45-51: trailing slash on the path part
TrailingSlash(url) ==
    IF url # <<>> /\ ~EndsWithSlash(url) /\ ~IncludesQ(url)
    THEN url \o << "/" >>
    ELSE IF url # <<>> /\ IncludesQ(url) /\ ~EndsWithSlash(SplitQ(url)[1])
    THEN SplitQ(url)[1] \o << "/", "?" >> \o SplitQ(url)[2]
    ELSE url

\* a request config: url, Authorization header (NoToken when not set),
\* Content-Type header and body as the caller supplied them
Config(url, ctype, body) == [url |-> url, auth |-> NoToken, ctype |-> ctype, body |-> body]

\* api.interceptors.request
RequestInterceptor(config, lsTok) ==
    [config EXCEPT !.auth = IF lsTok # NoToken THEN lsTok ELSE @,
                   !.url = TrailingSlash(@)]

\* the client a screen module sends with: the `api` instance (interceptors
\* installed), the bare axios default instance (none installed), or
\* "none" where the module calls an axios it never imports
ClientOf(s) ==
    CASE s \in {"Services", "Clients", "Finance", "PlatformFinance", "Reports"} -> "api"
      [] s \in {"Landing", "Dashboard", "Businesses", "UsersPage", "Staff",
                "Appointments", "Settings"} -> "axios"
      [] s \in {"Login", "Register", "AuthProvider"} -> "api"
      [] OTHER -> "none"

ScreenModules ==
    {"Landing", "Dashboard", "Businesses", "UsersPage", "Services", "Staff",
     "Appointments", "Clients", "Finance", "PlatformFinance", "Reports", "Settings"}

\* what leaves the browser when a module sends `config` through its client
Send(client, config, lsTok) ==
    IF client = "api" THEN RequestInterceptor(config, lsTok) ELSE config

\* an in-flight request: what it is and which module sent it
Req(kind, origin) == [kind |-> kind, origin |-> origin]

\* the module whose client a request went through
SenderOf(r) == r.origin

\* api.interceptors.response, error branch: the durable token and the
\* count of `window.location.href = '/login'` after a response of `status`
InterceptLs(r, status, lsTok) ==
    IF ClientOf(SenderOf(r)) = "api" /\ status = "401" THEN NoToken ELSE lsTok

InterceptHref(r, status, p, n) ==
    IF ClientOf(SenderOf(r)) = "api" /\ status = "401" /\ p # <<"login">> THEN n + 1 ELSE n

\* the endpoints that ask for no bearer token: /auth/login, /auth/register
\* and the /public subtree Landing calls
OpenEndpoint(r) == r.kind \in {"login", "register"} \/ r.origin = "Landing"

\* the backend: a protected endpoint answers 2xx only to a request that
\* carried a bearer token, which a request sent through bare axios never
\* does; 401 comes from a protected endpoint, or from /auth/login when it
\* rejects the credentials; any request can fail otherwise
ServerMayAnswer(r, st) ==
    CASE st = "ok" ->
            \/ OpenEndpoint(r)
            \/ \E tok \in Tokens :
                  Send(ClientOf(SenderOf(r)), Config(<< "a" >>, "", ""), tok).auth # NoToken
      [] st = "401" -> ~OpenEndpoint(r) \/ r.kind = "login"
      [] OTHER -> TRUE

\* (a Login form whose catch block only logs)
CatchToasts_LoginSilent(r) ==
    CASE r.kind = "register" -> TRUE
      [] r.kind = "profile" -> TRUE
      [] r.kind = "data" ->
            r.origin \in {"Services", "UsersPage", "Businesses", "Staff", "Appointments"}
      [] OTHER -> FALSE

\* whether the catch block of the handler that sent r calls toast.error:
\* Login / Register handleSubmit and Settings.handleSubmit do, fetchUser
\* only logs; of the screens' fetch handlers those of Services, Users,
\* Businesses, Staff and Appointments do, the others only log
CatchToasts(r) ==
    CASE r.kind \in {"login", "register"} -> TRUE
      [] r.kind = "profile" -> TRUE
      [] r.kind = "data" ->
            r.origin \in {"Services", "UsersPage", "Businesses", "Staff", "Appointments"}
      [] OTHER -> FALSE

\* the error toast a response of status st to r makes its handler show
ErrorToast(r, st) == st # "ok" /\ CatchToasts(r)

(***************************************************************************)
(* Session store (AuthProvider) and the application's operations           *)
(***************************************************************************)
Statuses == {"ok", "401", "err"}
NoFn == [name |-> "", in |-> <<>>, out |-> <<>>]
\* no screen-local state is followed
NoScr == [screen |-> ""]
Last(op, arg, st) == [op |-> op, arg |-> arg, status |-> st]

Add(bag, r) == bag (+) SetToBag({r})
Remove(bag, r) == bag (-) SetToBag({r})
InFlight(r) == BagIn(r, inflight)
Room == BagCardinality(inflight) < MaxInflight

\* useEffect([token]) after the token state changed from `old` to `new`:
\* fetchUser() is sent when the new token is truthy
EffectRequests(old, new) ==
    IF new # old /\ new # NoToken
    THEN SetToBag({ Req("me", "AuthProvider") })
    ELSE EmptyBag

\* (an effect that shows the spinner again while it fetches the Identity)
EffectLoading_Spinner(old, new, l) ==
    IF new # old THEN new # NoToken ELSE l

\* ... and setLoading(false) runs when it is not
EffectLoading(old, new, l) ==
    IF new # old /\ new = NoToken THEN FALSE ELSE l

\* a document is loaded at location p: AuthProvider is constructed with
\* user = null, token = localStorage.getItem('token'), loading = true, and its
\* effect runs once; requests of the previous document are gone
Construct(p, op) ==
    /\ token' = ls
    /\ user' = NoUser
    /\ loading' = (ls # NoToken)
    /\ inflight' = IF ls # NoToken
                   THEN SetToBag({ Req("me0", "AuthProvider") })
                   ELSE EmptyBag
    /\ hrefAssigned' = 0
    /\ path' = Settle(p, NoUser, ls # NoToken)
    /\ last' = Last(op, Decision(p, NoUser, ls # NoToken, last.op), "")
    /\ UNCHANGED <<ls, fn, scr>>

Init ==
    /\ ls \in Tokens \cup {NoToken}
    /\ token = ls
    /\ user = NoUser
    /\ loading = (ls # NoToken)
    /\ inflight = IF ls # NoToken
                  THEN SetToBag({ Req("me0", "AuthProvider") })
                  ELSE EmptyBag
    /\ hrefAssigned = 0
    /\ path \in { Settle(p, NoUser, ls # NoToken) : p \in Paths }
    /\ last = Last("Init", "", "")
    /\ fn = NoFn
    /\ scr = NoScr

\* the user opens or reloads the application at any URL
PageLoad(p) == Construct(p, "PageLoad")

\* the navigation started by `window.location.href = '/login'` commits
CommitRedirect ==
    /\ hrefAssigned > 0
    /\ Construct(<<"login">>, "CommitRedirect")

\* in-app navigation (a Link, navigate(), back / forward)
Navigate(p) ==
    /\ path' = Settle(p, user, loading)
    /\ last' = Last("Navigate", Decision(p, user, loading, ""), "")
    /\ UNCHANGED <<ls, token, user, loading, inflight, hrefAssigned, fn, scr>>

\* Login.handleSubmit up to `await login(...)`: api.post('/auth/login');
\* the submit button is disabled while the form's request is pending
SubmitLogin ==
    /\ Mounted = "Login"
    /\ ~InFlight(Req("login", "Login"))
    /\ Room
    /\ inflight' = Add(inflight, Req("login", "Login"))
    /\ last' = Last("SubmitLogin", "", "")
    /\ UNCHANGED <<ls, token, user, loading, path, hrefAssigned, fn, scr>>

\* Register.handleSubmit up to `await register(...)`: api.post('/auth/register');
\* the submit button is disabled while the form's request is pending
SubmitRegister ==
    /\ Mounted = "Register"
    /\ ~InFlight(Req("register", "Register"))
    /\ Room
    /\ inflight' = Add(inflight, Req("register", "Register"))
    /\ last' = Last("SubmitRegister", "", "")
    /\ UNCHANGED <<ls, token, user, loading, path, hrefAssigned, fn, scr>>

\* the rest of login() / register() and of the screen's handleSubmit once
\* the response is in: `dest` is where the screen navigates on success
AuthResponse(r, st, tok, u, dest) ==
    /\ InFlight(r)
    /\ ServerMayAnswer(r, st)
    /\ IF st = "ok"
       THEN /\ ls' = tok
            /\ token' = tok
            /\ user' = u
            /\ inflight' = Remove(inflight, r) (+) EffectRequests(token, tok)
            /\ loading' = EffectLoading(token, tok, loading)
            /\ hrefAssigned' = hrefAssigned
            /\ path' = Settle(dest, u, loading')
       ELSE /\ ls' = InterceptLs(r, st, ls)
            /\ hrefAssigned' = InterceptHref(r, st, path, hrefAssigned)
            /\ hrefAssigned' <= MaxHref
            /\ inflight' = Remove(inflight, r)
            /\ UNCHANGED <<token, user, loading, path>>
    /\ last' = Last(r.kind, [tok |-> tok, user |-> u, toast |-> ErrorToast(r, st)], st)
    /\ UNCHANGED <<fn, scr>>

\* what a response of status st carries: an access token and an Identity
\* on success, neither otherwise
Granted(st) == IF st = "ok" THEN Tokens ELSE {NoToken}
Returned(st) == IF st = "ok" THEN Roles ELSE {NoUser}

LoginResponse ==
    \E r \in BagToSet(inflight), st \in Statuses :
      \E tok \in Granted(st), u \in Returned(st) :
        /\ r.kind = "login"
        /\ AuthResponse(r, st, tok, u, LoginRedirect(RoleOf(u)))

RegisterResponse ==
    \E r \in BagToSet(inflight), st \in Statuses :
      \E tok \in Granted(st), u \in Returned(st) :
        /\ r.kind = "register"
        /\ AuthResponse(r, st, tok, u, <<"client">>)

\* (a logout that leaves localStorage alone)
LogoutLs_Kept == ls

\* logout(): the session after it
LogoutLs == NoToken
LogoutToken == NoToken

\* (a logout that forgets setUser(null))
LogoutUser_Kept == user

LogoutUser == NoUser

\* the session: durable token, token state, Identity, loading flag
Session == [ls |-> ls, token |-> token, user |-> user, loading |-> loading]

\* logout() applied to session s, with the token effect that follows it
LogoutOf(s) ==
    [ls |-> LogoutLs, token |-> LogoutToken, user |-> LogoutUser,
     loading |-> EffectLoading(s.token, LogoutToken, s.loading)]

\* fetchUser() once `api.get('/auth/me')` settles
MeResponse ==
    \E r \in BagToSet(inflight), st \in Statuses :
      \E u \in Returned(st) :
        /\ r.kind \in {"me0", "me"}
        /\ ServerMayAnswer(r, st)
        /\ IF st = "ok"
           THEN /\ user' = u
                /\ UNCHANGED <<ls, token, hrefAssigned>>
           ELSE /\ ls' = LogoutLs
                /\ token' = LogoutToken
                /\ user' = LogoutUser
                /\ hrefAssigned' = InterceptHref(r, st, path, hrefAssigned)
                /\ hrefAssigned' <= MaxHref
        /\ loading' = FALSE
        /\ inflight' = Remove(inflight, r)
        /\ path' = Settle(path, user', FALSE)
        /\ last' = Last(r.kind, [toast |-> ErrorToast(r, st)], st)
        /\ UNCHANGED <<fn, scr>>

\* DashboardLayout.handleLogout: logout(); navigate('/')
Logout ==
    /\ LayoutMounted
    /\ ls' = LogoutLs
    /\ token' = LogoutToken
    /\ user' = LogoutUser
    /\ loading' = EffectLoading(token, LogoutToken, loading)
    /\ path' = Settle(Root, LogoutUser, loading')
    /\ last' = Last("Logout", "", "")
    /\ UNCHANGED <<inflight, hrefAssigned, fn, scr>>

\* a screen module sends one of its requests (on mount or on a user action)
ScreenRequest(s) ==
    /\ Mounted = s
    /\ ClientOf(s) # "none"
    /\ Room
    /\ \E kind \in IF s = "Settings" THEN {"data", "profile"} ELSE {"data"} :
          inflight' = Add(inflight, Req(kind, s))
    /\ last' = Last("ScreenRequest", s, "")
    /\ UNCHANGED <<ls, token, user, loading, path, hrefAssigned, fn, scr>>

\* a screen request settles; Settings.handleSubmit passes the answer to
\* updateUser()
ScreenResponse ==
    \E r \in BagToSet(inflight), st \in Statuses :
      \E u \in Returned(st) :
        /\ r.kind \in {"data", "profile"}
        /\ ServerMayAnswer(r, st)
        /\ ls' = InterceptLs(r, st, ls)
        /\ hrefAssigned' = InterceptHref(r, st, path, hrefAssigned)
        /\ hrefAssigned' <= MaxHref
        /\ user' = IF r.kind = "profile" /\ st = "ok" THEN u ELSE user
        /\ inflight' = Remove(inflight, r)
        /\ path' = Settle(path, user', loading)
        /\ last' = Last("ScreenResponse",
                        [client |-> ClientOf(SenderOf(r)), toast |-> ErrorToast(r, st)], st)
        /\ UNCHANGED <<token, loading, fn, scr>>

Next ==
    \/ \E p \in Paths : PageLoad(p)
    \/ CommitRedirect
    \/ \E p \in Paths : Navigate(p)
    \/ SubmitLogin
    \/ SubmitRegister
    \/ LoginResponse
    \/ RegisterResponse
    \/ MeResponse
    \/ Logout
    \/ \E s \in ScreenModules : ScreenRequest(s)
    \/ ScreenResponse

Spec == Init /\ [][Next]_vars

\* the running application when every /auth/me request in flight is
\* eventually answered, with success or with failure
SpecLive == Init /\ [][Next]_vars /\ WF_vars(MeResponse)

(***************************************************************************)
(* parseErrorMessage (api.js)                                              *)
(***************************************************************************)
\* a property that is missing (undefined)
Undefined == "<undefined>"
\* `x || ...` for a string-or-undefined x
Truthy(x) == x # Undefined /\ x # ""

\* an entry of a detail list: an object with optional msg / message, or null
Entry(isNull, msg, message) == [isNull |-> isNull, msg |-> msg, message |-> message]
MsgValues == {Undefined, "", "field required"}
MessageValues == {Undefined, "", "bad input"}
Objects == { Entry(FALSE, m, g) : m \in MsgValues, g \in MessageValues }
Entries == Objects \cup { Entry(TRUE, Undefined, Undefined) }

\* JSON.stringify of an object: undefined properties are left out
Stringify(d) ==
    "{" \o (IF d.msg = Undefined THEN "" ELSE "msg:'" \o d.msg \o "'")
        \o (IF d.msg # Undefined /\ d.message # Undefined THEN "," ELSE "")
        \o (IF d.message = Undefined THEN "" ELSE "message:'" \o d.message \o "'")
        \o "}"

\* (an entry read as d.message || d.msg || JSON.stringify(d))
MsgOf_MessageFirst(d) ==
    IF Truthy(d.message) THEN d.message
    ELSE IF Truthy(d.msg) THEN d.msg
    ELSE Stringify(d)

\* d.msg || d.message || JSON.stringify(d)
MsgOf(d) ==
    IF Truthy(d.msg) THEN d.msg
    ELSE IF Truthy(d.message) THEN d.message
    ELSE Stringify(d)

\* Array.prototype.join(', ')
RECURSIVE Join(_)
Join(strs) ==
    IF strs = << >> THEN ""
    ELSE IF Len(strs) = 1 THEN strs[1]
    ELSE strs[1] \o ", " \o Join(Tail(strs))

\* error.response?.data?.detail: its type and value; "undefined" when
\* the response, its data or the detail is missing
Detail(type, v) == [type |-> type, v |-> v]
NoDetail == Detail("undefined", Undefined)

RECURSIVE EntryLists(_)
EntryLists(n) ==
    IF n = 0 THEN { << >> }
    ELSE LET shorter == EntryLists(n - 1) IN
         shorter \cup { Append(l, e) : l \in { q \in shorter : Len(q) = n - 1 }, e \in Entries }

Details ==
    {NoDetail}
      \cup { Detail("string", v) : v \in {"", "Incorrect password"} }
      \cup { Detail("number", v) : v \in {0, 7} }
      \cup { Detail("array", l) : l \in EntryLists(MaxEntries) }
      \cup { Detail("object", o) : o \in Objects }

\* `if (detail)`: undefined, '' and 0 are falsy, arrays and objects are not
DetailTruthy(d) ==
    CASE d.type = "undefined" -> FALSE
      [] d.type = "string"    -> d.v # ""
      [] d.type = "number"    -> d.v # 0
      [] OTHER                -> TRUE

Returns(v) == [threw |-> FALSE, v |-> v]
\* d.msg on a null entry
Throws == [threw |-> TRUE, v |-> "TypeError"]

\* parseErrorMessage(error, defaultMessage), error given by its detail
ParseErrorMessage(detail, defaultMessage) ==
    IF DetailTruthy(detail)
    THEN CASE detail.type = "string" -> Returns(detail.v)
           [] detail.type = "array" ->
                 IF \E i \in 1..Len(detail.v) : detail.v[i].isNull
                 THEN Throws
                 ELSE Returns(Join([i \in 1..Len(detail.v) |-> MsgOf(detail.v[i])]))
           [] detail.type = "object" -> Returns(MsgOf(detail.v))
           [] OTHER -> Returns(defaultMessage)
    ELSE Returns(defaultMessage)

DefaultMessages == {"Server error", "Error al guardar"}

(***************************************************************************)
(* Access predicates of the session store (hasRole, canAccess)             *)
(***************************************************************************)
\* (a permissions table whose staff row lost 'calendar')
Permissions_StaffNoCalendar(role) ==
    CASE role = "super_admin" -> {"all"}
      [] role = "admin"       -> {"businesses", "users", "services", "staff",
                                  "appointments", "clients", "finance", "reports"}
      [] role = "business"    -> {"services", "staff", "appointments", "clients",
                                  "finance", "reports"}
      [] role = "staff"       -> {"appointments"}
      [] role = "client"      -> {"my_appointments"}
      [] OTHER                -> {}

\* canAccess: permissions[user.role] || []
Permissions(role) ==
    CASE role = "super_admin" -> {"all"}
      [] role = "admin"       -> {"businesses", "users", "services", "staff",
                                  "appointments", "clients", "finance", "reports"}
      [] role = "business"    -> {"services", "staff", "appointments", "clients",
                                  "finance", "reports"}
      [] role = "staff"       -> {"appointments", "calendar"}
      [] role = "client"      -> {"my_appointments"}
      [] OTHER                -> {}

\* canAccess(resource) against the Identity u
CanAccess(u, resource) ==
    IF u = NoUser THEN FALSE
    ELSE "all" \in Permissions(RoleOf(u)) \/ resource \in Permissions(RoleOf(u))

\* hasRole(roles) for a list of roles
HasRole(u, roles) ==
    IF u = NoUser THEN FALSE ELSE RoleOf(u) \in roles

\* resource names asked about: those of the table, the wildcard itself,
\* and names no row holds
Resources ==
    {"businesses", "users", "services", "staff", "appointments", "clients", "finance",
     "reports", "calendar", "my_appointments", "all", "platform-finance", "settings"}

(***************************************************************************)
(* Navigation shell (DashboardLayout)                                      *)
(***************************************************************************)
\* (a business row that was copied from the admin row)
RoleItems_BusinessAsAdmin(role) ==
    CASE role = "super_admin" -> <<"businesses", "users", "appointments",
                                   "platform-finance", "reports", "settings">>
      [] role \in {"admin", "business"} ->
                                 <<"businesses", "users", "services", "staff",
                                   "appointments", "clients", "finance", "reports",
                                   "settings">>
      [] role = "staff"       -> <<"calendar", "settings">>
      [] role = "client"      -> <<"appointments", "settings">>
      [] OTHER                -> << >>

\* getNavItems: roleItems[user?.role] || [], each item by its path
RoleItems(role) ==
    CASE role = "super_admin" -> <<"businesses", "users", "appointments",
                                   "platform-finance", "reports", "settings">>
      [] role = "admin"       -> <<"businesses", "users", "services", "staff",
                                   "appointments", "clients", "finance", "reports",
                                   "settings">>
      [] role = "business"    -> <<"services", "staff", "appointments", "clients",
                                   "finance", "reports", "settings">>
      [] role = "staff"       -> <<"calendar", "settings">>
      [] role = "client"      -> <<"appointments", "settings">>
      [] OTHER                -> << >>

\* getNavItems: the dashboard item (path '') followed by the role's items
GetNavItems(u) == << "" >> \o RoleItems(RoleOf(u))

\* (a basePath without the super_admin -> admin alias)
BasePath_NoAlias(u) == << RoleOf(u) >>

\* basePath: `/${user?.role === 'super_admin' ? 'admin' : user?.role}`
BasePath(u) == IF RoleOf(u) = "super_admin" THEN << "admin" >> ELSE << RoleOf(u) >>

\* the items the shell shows: it is rendered only inside a guarded route
NavShell == IF LayoutMounted THEN GetNavItems(user) ELSE << >>

\* the route a displayed item links to:
\* item.path ? `${basePath}/${item.path}` : basePath
LinkOf(u, item) == IF item # "" THEN BasePath(u) \o << item >> ELSE BasePath(u)

\* location.pathname and the template strings it is compared with, as
\* sequences of pieces ("/" and the text between slashes) whose
\* concatenation is the string
PathString(p) ==
    IF p = Root THEN << "/" >>
    ELSE [i \in 1..(2 * Len(p)) |-> IF i % 2 = 1 THEN "/" ELSE p[i \div 2]]

\* String.prototype.startsWith
StartsWith(str, prefix) ==
    Len(prefix) <= Len(str) /\ SubSeq(str, 1, Len(prefix)) = prefix

\* fullPath of an item, as a string
FullPath(u, item) == PathString(LinkOf(u, item))

\* isActive in the desktop sidebar:
\* pathname === fullPath || (item.path && pathname.startsWith(`${basePath}/${item.path}`))
IsActiveDesktop(pathname, u, item) ==
    \/ pathname = FullPath(u, item)
    \/ item # "" /\ StartsWith(pathname, PathString(BasePath(u)) \o << "/", item >>)

\* isActive in the mobile menu: pathname === fullPath
IsActiveMobile(pathname, u, item) == pathname = FullPath(u, item)

\* trailing text a pathname may carry after an item's full path: nothing, a
\* trailing slash, a nested segment, or more characters of the same segment
Tails == { << >>, << "/" >>, << "/", "7" >>, << "s" >> }

\* the pathnames the shell is asked about for the Identity u: a link of u's
\* menu or of another role's, with one of the tails
Pathnames(u) ==
    { PathString(LinkOf(v, GetNavItems(v)[i])) \o tail :
        v \in {u, "business"}, i \in {1, 2, 3}, tail \in Tails }

(***************************************************************************)
(* SpecPure: the pure functions applied to bounded inputs                  *)
(***************************************************************************)
\* the modules that call protected or session endpoints (Landing only calls
\* the open /public subtree)
Senders == (ScreenModules \ {"Landing"}) \cup {"Login", "Register", "AuthProvider"}
ContentTypes == {"", "application/x-www-form-urlencoded"}
Bodies == {"", "payload"}

\* a module sends a request while the durable token is `ls`
ApplySend(s, url, ctype, body) ==
    /\ fn = NoFn
    /\ ClientOf(s) # "none"
    /\ fn' = [name |-> "send",
              in |-> [sender |-> s, config |-> Config(url, ctype, body)],
              out |-> Send(ClientOf(s), Config(url, ctype, body), ls)]
    /\ UNCHANGED <<ls, token, user, loading, path, inflight, hrefAssigned, last, scr>>

\* the three role -> home route maps are looked up for one role
ApplyHome(role) ==
    /\ fn = NoFn
    /\ fn' = [name |-> "home", in |-> role,
              out |-> << ProtectedRedirect(role), PublicRedirect(role), LoginRedirect(role) >>]
    /\ UNCHANGED <<ls, token, user, loading, path, inflight, hrefAssigned, last, scr>>

\* canAccess(resource) is asked of a session whose Identity is u
ApplyCanAccess(u, resource) ==
    /\ fn = NoFn
    /\ fn' = [name |-> "canAccess", in |-> [user |-> u, resource |-> resource],
              out |-> CanAccess(u, resource)]
    /\ UNCHANGED <<ls, token, user, loading, path, inflight, hrefAssigned, last, scr>>

\* parseErrorMessage is applied to an error and a default message
ApplyParse(detail, defaultMessage) ==
    /\ fn = NoFn
    /\ fn' = [name |-> "parse", in |-> [detail |-> detail, default |-> defaultMessage],
              out |-> ParseErrorMessage(detail, defaultMessage)]
    /\ UNCHANGED <<ls, token, user, loading, path, inflight, hrefAssigned, last, scr>>

\* getNavItems and basePath are evaluated for the Identity u
ApplyNav(u) ==
    /\ fn = NoFn
    /\ fn' = [name |-> "nav", in |-> u,
              out |-> [items |-> GetNavItems(u), basePath |-> BasePath(u)]]
    /\ UNCHANGED <<ls, token, user, loading, path, inflight, hrefAssigned, last, scr>>

\* both menus evaluate isActive for item number i of u's menu at a pathname
ApplyIsActive(u, i, pathname) ==
    /\ fn = NoFn
    /\ i \in DOMAIN GetNavItems(u)
    /\ LET item == GetNavItems(u)[i] IN
       fn' = [name |-> "isActive",
              in |-> [user |-> u, item |-> item, pathname |-> pathname],
              out |-> [desktop |-> IsActiveDesktop(pathname, u, item),
                       mobile |-> IsActiveMobile(pathname, u, item)]]
    /\ UNCHANGED <<ls, token, user, loading, path, inflight, hrefAssigned, last, scr>>

NextPure ==
    \/ \E s \in Senders, url \in Urls, ctype \in ContentTypes, body \in Bodies :
          ApplySend(s, url, ctype, body)
    \/ \E role \in RoleInputs : ApplyHome(role)
    \/ \E u \in Roles \cup {NoUser}, resource \in Resources : ApplyCanAccess(u, resource)
    \/ \E detail \in Details, defaultMessage \in DefaultMessages :
          ApplyParse(detail, defaultMessage)
    \/ \E u \in KnownRoles : ApplyNav(u)
    \/ \E u \in KnownRoles, i \in 1..10 :
          \E pathname \in Pathnames(u) : ApplyIsActive(u, i, pathname)

\* the application as loaded at /, with or without a durable token
InitPure == Init /\ path = Root

SpecPure == InitPure /\ [][NextPure]_vars

(***************************************************************************)
(* SpecBusinesses: the Businesses screen (fetchBusinesses, toggleStatus)   *)
(***************************************************************************)
Biz == 1..NumBusinesses
\* useState([]): the list before the first fetch has filled it
NoList == << >>
\* the is_active flag of every business, as the backend holds it or as the
\* list shows it
Flags == [Biz -> BOOLEAN]

\* axios.put(`${API}/businesses/${business.id}`, { is_active: ... })
PutReq(b, body) == [kind |-> "put", biz |-> b, body |-> body, snap |-> NoList]
\* axios.get(`${API}/businesses`): sent on mount (biz = 0) or after the
\* toggle of business biz; snap is the response data once the backend has
\* served it
GetReq(b, body, snap) == [kind |-> "get", biz |-> b, body |-> body, snap |-> snap]

\* (a toggle that sends the flag as it is)
ToggleBody_Same(business) == business.is_active

\* toggleStatus: { is_active: !business.is_active }
ToggleBody(business) == ~business.is_active

\* the row of business b in the list on display
Row(list, b) == [id |-> b, is_active |-> list[b]]

BizOp(name, b, body, st) == [name |-> name, biz |-> b, body |-> body, status |-> st]

\* an admin has opened /admin/businesses: the screen is mounted with an empty
\* list and its effect has sent the first fetch
InitBusinesses ==
    /\ ls \in Tokens /\ token = ls
    /\ user \in AdminRoles
    /\ loading = FALSE
    /\ path = <<"admin", "businesses">>
    /\ inflight = EmptyBag
    /\ hrefAssigned = 0
    /\ last = Last("Init", "", "")
    /\ fn = NoFn
    /\ \E server \in Flags :
          scr = [screen |-> "Businesses", server |-> server, businesses |-> NoList,
                 pending |-> SetToBag({ GetReq(0, FALSE, NoList) }), toast |-> "",
                 overlap |-> FALSE, op |-> BizOp("mount", 0, FALSE, "")]

SessionUnchanged ==
    UNCHANGED <<ls, token, user, loading, path, inflight, hrefAssigned, last, fn>>

\* the user clicks the status switch of the row of business b
ToggleStatus(b) ==
    /\ Mounted = "Businesses"
    /\ scr.businesses # NoList
    /\ BagCardinality(scr.pending) < MaxPending
    /\ LET body == ToggleBody(Row(scr.businesses, b)) IN
       scr' = [scr EXCEPT !.pending = Add(@, PutReq(b, body)),
                          !.overlap = @ \/ scr.pending # EmptyBag,
                          !.op = BizOp("toggle", b, body, "")]
    /\ SessionUnchanged

\* toggleStatus once the update settles: toast.success and fetchBusinesses()
\* after a 2xx, toast.error in the catch block otherwise; the backend has
\* applied an update it answered 2xx, and may have applied one whose answer
\* was lost
PutSettles ==
    \E r \in BagToSet(scr.pending), st \in Statuses, applied \in BOOLEAN :
        /\ r.kind = "put"
        /\ st = "ok" => applied
        /\ st = "401" => ~applied
        /\ scr' = [scr EXCEPT
                     !.server = IF applied THEN [@ EXCEPT ![r.biz] = r.body] ELSE @,
                     !.pending = IF st = "ok"
                                 THEN Add(Remove(@, r), GetReq(r.biz, r.body, NoList))
                                 ELSE Remove(@, r),
                     !.toast = IF st = "ok" THEN "success" ELSE "error",
                     !.op = BizOp("put", r.biz, r.body, st)]
        /\ SessionUnchanged

\* the backend serves a list fetch: the response carries its flags of now
GetServed ==
    \E r \in BagToSet(scr.pending) :
        /\ r.kind = "get" /\ r.snap = NoList
        /\ scr' = [scr EXCEPT
                     !.pending = Add(Remove(@, r), GetReq(r.biz, r.body, scr.server)),
                     !.op = BizOp("served", r.biz, r.body, "")]
        /\ SessionUnchanged

\* fetchBusinesses once the fetch settles: setBusinesses(res.data), or
\* toast.error in the catch block
GetSettles ==
    \E r \in BagToSet(scr.pending), st \in Statuses :
        /\ r.kind = "get"
        /\ st = "ok" => r.snap # NoList
        /\ scr' = [scr EXCEPT
                     !.businesses = IF st = "ok" THEN r.snap ELSE @,
                     !.pending = Remove(@, r),
                     !.toast = IF st = "ok" THEN @ ELSE "error",
                     !.op = BizOp("get", r.biz, r.body, st)]
        /\ SessionUnchanged

NextBusinesses ==
    \/ \E b \in Biz : ToggleStatus(b)
    \/ PutSettles
    \/ GetServed
    \/ GetSettles

SpecBusinesses == InitBusinesses /\ [][NextBusinesses]_vars

(***************************************************************************)
(* SpecJoin: the screens whose fetch handler joins several calls with      *)
(* Promise.all                                                             *)
(***************************************************************************)
JoinScreens == {"Services", "Staff", "UsersPage", "PlatformFinance", "Reports", "Dashboard"}

\* the calls the handler passes to Promise.all for a user of the given role;
\* a branch that takes Promise.resolve({ data: ... }) sends nothing
JoinCalls(s, role) ==
    CASE s = "Services" ->
            {"/services", "/staff"}
              \cup (IF role \in AdminRoles THEN {"/businesses"} ELSE {})
      [] s = "Staff" ->
            {"/staff", "/users", "/services"}
              \cup (IF role \in AdminRoles THEN {"/businesses"} ELSE {})
      [] s = "UsersPage" ->
            {"/users"} \cup (IF role \in AdminRoles THEN {"/businesses"} ELSE {})
      [] s = "PlatformFinance" -> {"/finance/platform", "/businesses"}
      [] s = "Reports" -> {"/reports/appointments", "/reports/income", "/reports/clients"}
      [] s = "Dashboard" ->
            {"/appointments"}
              \cup (IF role \notin {"client", "staff"} THEN {"/reports/appointments"} ELSE {})
      [] OTHER -> {}

\* the state variables the handler sets from the responses
DataVars(s) ==
    CASE s = "Services" -> {"services", "businesses", "staffList"}
      [] s = "Staff" -> {"staffList", "users", "businesses", "services"}
      [] s = "UsersPage" -> {"users", "businesses"}
      [] s = "PlatformFinance" -> {"platformData", "businesses"}
      [] s = "Reports" -> {"appointmentsReport", "incomeReport", "clientsReport"}
      [] s = "Dashboard" -> {"stats", "recentAppointments"}
      [] OTHER -> {}

\* the screens whose effect runs the handler again when a filter changes
\* (roleFilter, period, dateRange); the others fetch on mount only
Refetching == {"UsersPage", "PlatformFinance", "Reports"}

\* Promise.all fulfils once every call has
AllSettled(calls) == \A c \in DOMAIN calls : calls[c] = "ok"

\* the handler has just been called for the n-th time: its calls are out,
\* every data variable holds what the (n-1)-th run left (0: the useState
\* initial value)
JoinStart(s, role, data, n) ==
    [screen |-> s,
     calls |-> [c \in JoinCalls(s, role) |-> "pending"],
     join |-> "pending",
     round |-> n,
     prior |-> data,
     data |-> data,
     error |-> FALSE]

\* a user whose role the route admits has opened one of the screens: the
\* screen is mounted and its effect has called the handler
InitJoin ==
    /\ ls \in Tokens /\ token = ls
    /\ loading = FALSE
    /\ inflight = EmptyBag
    /\ hrefAssigned = 0
    /\ last = Last("Init", "", "")
    /\ fn = NoFn
    /\ \E r \in RouteTable :
          /\ r.screen \in JoinScreens
          /\ user \in r.allowed
          /\ path = r.path
          /\ scr = JoinStart(r.screen, user, [v \in DataVars(r.screen) |-> 0], 1)

\* one of the joined calls settles.  Promise.all rejects with the first call
\* that fails and the catch block runs (toast.error or console.error, as
\* CatchToasts tells); it fulfils when the last call has succeeded and the
\* handler then sets every data variable; calls that settle after the join
\* has rejected are ignored
CallSettles(c, st) ==
    /\ scr.calls[c] = "pending"
    /\ LET calls == [scr.calls EXCEPT ![c] = IF st = "ok" THEN "ok" ELSE "failed"] IN
       scr' = CASE scr.join # "pending" -> [scr EXCEPT !.calls = calls]
                [] st # "ok" ->
                     [scr EXCEPT !.calls = calls, !.join = "rejected",
                                 !.error = CatchToasts(Req("data", scr.screen))]
                [] AllSettled(calls) ->
                     [scr EXCEPT !.calls = calls, !.join = "fulfilled",
                                 !.data = [v \in DOMAIN scr.data |-> scr.round]]
                [] OTHER -> [scr EXCEPT !.calls = calls]
    /\ SessionUnchanged

\* the user changes the filter of the screen once the previous run is over:
\* the effect calls the handler again
FilterChange ==
    /\ scr.screen \in Refetching
    /\ scr.round < MaxRounds
    /\ \A c \in DOMAIN scr.calls : scr.calls[c] # "pending"
    /\ scr' = JoinStart(scr.screen, user, scr.data, scr.round + 1)
    /\ SessionUnchanged

NextJoin ==
    \/ \E c \in DOMAIN scr.calls, st \in Statuses : CallSettles(c, st)
    \/ FilterChange

SpecJoin == InitJoin /\ [][NextJoin]_vars

(***************************************************************************)
(* SpecNotifications: the unread count of DashboardLayout                  *)
(* (fetchNotifications, markAllRead)                                       *)
(***************************************************************************)
\* the response data of a request the backend has not served yet
NotServed == MaxUnread + 1

\* axios.put(`${API}/notifications/read-all`)
ReadAllReq == [kind |-> "read-all", snap |-> NotServed]
\* axios.get(`${API}/notifications?unread_only=true`); snap is
\* res.data.length once the backend has served it
UnreadReq(snap) == [kind |-> "unread", snap |-> snap]

\* (a handler that clears the count whatever the answer)
CountAfterReadAll_Always(st, count) == 0

\* markAllRead after `await axios.put(...)`: setUnreadCount(0) is reached
\* only when the await did not throw
CountAfterReadAll(st, count) == IF st = "ok" THEN 0 ELSE count

NotifOp(name, st) == [name |-> name, status |-> st]

\* a user is on a guarded route: the layout is mounted with unreadCount 0
\* and its effect has called fetchNotifications()
InitNotifications ==
    /\ ls \in Tokens /\ token = ls
    /\ loading = FALSE
    /\ inflight = EmptyBag
    /\ hrefAssigned = 0
    /\ last = Last("Init", "", "")
    /\ fn = NoFn
    /\ \E r \in RouteTable :
          /\ r.guard = "protected"
          /\ user \in r.allowed
          /\ path = r.path
    /\ \E n \in 0..MaxUnread :
          scr = [screen |-> "DashboardLayout", unread |-> n, unreadCount |-> 0,
                 pending |-> SetToBag({ UnreadReq(NotServed) }), op |-> NotifOp("mount", "")]

\* a notification for the user is created on the backend
NotificationArrives ==
    /\ scr.unread < MaxUnread
    /\ scr' = [scr EXCEPT !.unread = @ + 1, !.op = NotifOp("arrives", "")]
    /\ SessionUnchanged

\* the user picks "mark all read": markAllRead up to the await
MarkAllRead ==
    /\ LayoutMounted
    /\ BagCardinality(scr.pending) < MaxPending
    /\ scr' = [scr EXCEPT !.pending = Add(@, ReadAllReq),
                          !.op = NotifOp("markAllRead", "")]
    /\ SessionUnchanged

\* markAllRead once the update settles: setUnreadCount(0) and
\* fetchNotifications() after a 2xx, console.error otherwise
ReadAllSettles ==
    \E st \in Statuses, applied \in BOOLEAN :
        /\ BagIn(ReadAllReq, scr.pending)
        /\ st = "ok" => applied
        /\ st = "401" => ~applied
        /\ scr' = [scr EXCEPT
                     !.unread = IF applied THEN 0 ELSE @,
                     !.unreadCount = CountAfterReadAll(st, @),
                     !.pending = IF st = "ok"
                                 THEN Add(Remove(@, ReadAllReq), UnreadReq(NotServed))
                                 ELSE Remove(@, ReadAllReq),
                     !.op = NotifOp("read-all", st)]
        /\ SessionUnchanged

\* the backend serves a fetch of the unread notifications
UnreadServed ==
    /\ BagIn(UnreadReq(NotServed), scr.pending)
    /\ scr' = [scr EXCEPT
                 !.pending = Add(Remove(@, UnreadReq(NotServed)), UnreadReq(scr.unread)),
                 !.op = NotifOp("served", "")]
    /\ SessionUnchanged

\* fetchNotifications once the fetch settles: setUnreadCount(res.data.length),
\* or console.error
UnreadSettles ==
    \E r \in BagToSet(scr.pending), st \in Statuses :
        /\ r.kind = "unread"
        /\ st = "ok" => r.snap # NotServed
        /\ scr' = [scr EXCEPT
                     !.unreadCount = IF st = "ok" THEN r.snap ELSE @,
                     !.pending = Remove(@, r),
                     !.op = NotifOp("unread", st)]
        /\ SessionUnchanged

NextNotifications ==
    \/ NotificationArrives
    \/ MarkAllRead
    \/ ReadAllSettles
    \/ UnreadServed
    \/ UnreadSettles

SpecNotifications == InitNotifications /\ [][NextNotifications]_vars

(***************************************************************************)
(* SpecMutations: the handlers of the screens that send a mutating call    *)
(***************************************************************************)
Handler(module, name) == [module |-> module, name |-> name]

\* every handler in the screen modules that awaits a POST or PUT
Mutations ==
    { Handler("Businesses", "handleSubmit"), Handler("Businesses", "handlePaymentConfig"),
      Handler("Businesses", "toggleStatus"),
      Handler("Services", "handleSubmit"), Handler("Services", "toggleStatus"),
      Handler("Staff", "handleSubmit"), Handler("Staff", "toggleStatus"),
      Handler("UsersPage", "handleSubmit"), Handler("UsersPage", "toggleStatus"),
      Handler("Clients", "handleSubmit"), Handler("Clients", "toggleStatus"),
      Handler("Appointments", "handleSubmit"), Handler("Appointments", "updateStatus"),
      Handler("PlatformFinance", "handleSubmit"),
      Handler("Settings", "handleSubmit"), Handler("Settings", "handleLanguageChange"),
      Handler("DashboardLayout", "markAllRead"),
      Handler("Landing", "handleBooking") }

\* the calls a handler awaits one after the other inside its try block:
\* UsersPage.handleSubmit, editing a user with businesses chosen, awaits
\* the update of the user and then that of the user's businesses
CallCounts(h) ==
    IF h = Handler("UsersPage", "handleSubmit") THEN {1, 2} ELSE {1}

\* what the catch block of a handler does with the rejection: toast.error,
\* or console.error only
CatchOf(h) ==
    IF h \in { Handler("Settings", "handleLanguageChange"),
               Handler("DashboardLayout", "markAllRead") }
    THEN "log" ELSE "toast"

\* what the handler shows after its last await: every handler calls
\* toast.success, markAllRead does not
SuccessOf(h) == IF h = Handler("DashboardLayout", "markAllRead") THEN "" ELSE "success"

\* the handler h has been called and awaits the first of its n calls; the
\* data of the screen is as it was
MutationStart(h, n) ==
    [screen |-> h.module, handler |-> h, calls |-> n, awaiting |-> 1,
     outcome |-> "pending", data |-> "prior", toast |-> "", escaped |-> FALSE]

\* a user the route admits is on the screen (any visitor on Landing, any
\* guarded route for the layout) and triggers one of its handlers
InitMutations ==
    /\ loading = FALSE
    /\ inflight = EmptyBag
    /\ hrefAssigned = 0
    /\ last = Last("Init", "", "")
    /\ fn = NoFn
    /\ \E r \in RouteTable, h \in Mutations :
          /\ \/ r.screen = h.module
             \/ h.module = "DashboardLayout" /\ r.guard = "protected"
          /\ path = r.path
          /\ IF r.guard = "protected"
             THEN user \in r.allowed /\ ls \in Tokens
             ELSE user = NoUser /\ ls = NoToken
          /\ token = ls
          /\ \E n \in CallCounts(h) : scr = MutationStart(h, n)

\* the call the handler awaits settles: after a 2xx the handler goes on to
\* its next await or, after the last, applies the change (closes the
\* dialog, re-fetches, updates the Identity or the language) and shows its
\* success toast; a rejection is thrown inside the try block and lands in
\* the handler's own catch block
MutationSettles(st) ==
    /\ scr.outcome = "pending"
    /\ scr' = CASE st # "ok" ->
                     [scr EXCEPT !.outcome = "rejected",
                                 !.toast = IF CatchOf(scr.handler) = "toast"
                                           THEN "error" ELSE ""]
                [] scr.awaiting < scr.calls ->
                     [scr EXCEPT !.awaiting = @ + 1]
                [] OTHER ->
                     [scr EXCEPT !.outcome = "fulfilled", !.data = "applied",
                                 !.toast = SuccessOf(scr.handler)]
    /\ SessionUnchanged

\* the user triggers a handler of the same screen again
MutationAgain ==
    /\ scr.outcome # "pending"
    /\ \E h \in Mutations :
          /\ h.module = scr.screen
          /\ \E n \in CallCounts(h) :
                scr' = [MutationStart(h, n) EXCEPT !.toast = scr.toast]
    /\ SessionUnchanged

NextMutations ==
    \/ \E st \in Statuses : MutationSettles(st)
    \/ MutationAgain

SpecMutations == InitMutations /\ [][NextMutations]_vars

(***************************************************************************)
(* SpecUsers: the Users screen (handleSubmit on an existing user,          *)
(* toggleStatus)                                                           *)
(***************************************************************************)
Usr == 1..NumUsers
\* what the edit form holds for first_name, last_name, phone and role
Profiles == {"as created", "as edited"}
UserRecords == [profile : Profiles, is_active : BOOLEAN]

\* handleSubmit with selectedUser set: the body of
\* axios.put(`${API}/users/${selectedUser.id}`, ...)
EditBody(formData) ==
    [fields |-> {"profile", "is_active"}, profile |-> formData, is_active |-> TRUE]

\* toggleStatus: the body { is_active: !u.is_active }
StatusBody(u) ==
    [fields |-> {"is_active"}, profile |-> "", is_active |-> ~u.is_active]

\* PUT /users/{id}: the backend overwrites the fields the body carries
ApplyUpdate(record, body) ==
    [profile |-> IF "profile" \in body.fields THEN body.profile ELSE record.profile,
     is_active |-> IF "is_active" \in body.fields THEN body.is_active
                   ELSE record.is_active]

UserPut(handler, id, body) == [kind |-> "put", handler |-> handler, id |-> id, body |-> body]
UsersGet == [kind |-> "get", handler |-> "fetchData", id |-> 0, body |-> StatusBody([is_active |-> TRUE])]
UserOp(name, id, st) == [name |-> name, id |-> id, status |-> st]

\* an admin is on /admin/users and the list shows the users as the backend
\* holds them
InitUsers ==
    /\ ls \in Tokens /\ token = ls
    /\ user \in AdminRoles
    /\ loading = FALSE
    /\ path = <<"admin", "users">>
    /\ inflight = EmptyBag
    /\ hrefAssigned = 0
    /\ last = Last("Init", "", "")
    /\ fn = NoFn
    /\ \E server \in [Usr -> UserRecords] :
          scr = [screen |-> "UsersPage", server |-> server, users |-> server,
                 pending |-> EmptyBag, toast |-> "", op |-> UserOp("mount", 0, "")]

\* the user opens the edit dialog on the row of user id, fills the form
\* and submits it
SubmitEdit(id, formData) ==
    /\ Mounted = "UsersPage"
    /\ BagCardinality(scr.pending) < MaxPending
    /\ scr' = [scr EXCEPT !.pending = Add(@, UserPut("handleSubmit", id, EditBody(formData))),
                          !.op = UserOp("handleSubmit", id, "")]
    /\ SessionUnchanged

\* the user picks enable / disable on the row of user id
ToggleUser(id) ==
    /\ Mounted = "UsersPage"
    /\ BagCardinality(scr.pending) < MaxPending
    /\ scr' = [scr EXCEPT !.pending = Add(@, UserPut("toggleStatus", id, StatusBody(scr.users[id]))),
                          !.op = UserOp("toggleStatus", id, "")]
    /\ SessionUnchanged

\* an update settles: after a 2xx the handler shows its success toast and
\* calls fetchData(), otherwise its catch block shows the error toast
UserPutSettles ==
    \E r \in BagToSet(scr.pending), st \in Statuses :
        /\ r.kind = "put"
        /\ scr' = [scr EXCEPT
                     !.server = IF st = "ok"
                                THEN [@ EXCEPT ![r.id] = ApplyUpdate(@, r.body)]
                                ELSE @,
                     !.pending = IF st = "ok" THEN Add(Remove(@, r), UsersGet)
                                 ELSE Remove(@, r),
                     !.toast = IF st = "ok" THEN "success" ELSE "error",
                     !.op = UserOp(r.handler, r.id, st)]
        /\ SessionUnchanged

\* fetchData settles: setUsers(usersRes.data), or the error toast
UsersGetSettles ==
    \E st \in Statuses :
        /\ BagIn(UsersGet, scr.pending)
        /\ scr' = [scr EXCEPT
                     !.users = IF st = "ok" THEN scr.server ELSE @,
                     !.pending = Remove(@, UsersGet),
                     !.toast = IF st = "ok" THEN @ ELSE "error",
                     !.op = UserOp("fetchData", 0, st)]
        /\ SessionUnchanged

NextUsers ==
    \/ \E id \in Usr, formData \in Profiles : SubmitEdit(id, formData)
    \/ \E id \in Usr : ToggleUser(id)
    \/ UserPutSettles
    \/ UsersGetSettles

SpecUsers == InitUsers /\ [][NextUsers]_vars

(***************************************************************************)
(* SpecBooking: the public booking form of Landing                         *)
(***************************************************************************)
\* ids: a business is one of Biz; every business offers one service, named
\* by the business, and every service has one staff member, named by the
\* service; 0 stands for '' in bookingData and for [] as a list
NoId == 0

\* useState for bookingData (date and time: whether one is chosen)
NoBooking ==
    [business_id |-> NoId, service_id |-> NoId, staff_id |-> NoId,
     date |-> FALSE, time |-> FALSE]

\* axios.get(`${API}/public/businesses/${businessId}/services`),
\* axios.get(`${API}/public/services/${serviceId}/staff`),
\* axios.post(`${API}/public/book`, {...})
BookingReq(kind, id, body) == [kind |-> kind, id |-> id, body |-> body]

BookingOp(name, st) == [name |-> name, status |-> st]

\* step 3 of the form, which holds the submit button:
\* {bookingData.date && bookingData.time && (...)}, button disabled={loading}
SubmitAvailable == scr.bookingData.date /\ scr.bookingData.time /\ ~scr.loading

\* a visitor is on the landing page and the businesses are listed
InitBooking ==
    /\ ls = NoToken /\ token = ls
    /\ user = NoUser
    /\ loading = FALSE
    /\ path = Root
    /\ inflight = EmptyBag
    /\ hrefAssigned = 0
    /\ last = Last("Init", "", "")
    /\ fn = NoFn
    /\ scr = [screen |-> "Landing", bookingData |-> NoBooking, services |-> NoId,
              staffList |-> NoId, loading |-> FALSE, pending |-> EmptyBag,
              toast |-> "", op |-> BookingOp("mount", "")]

\* onValueChange of the business select: the visitor picks another business
HandleBusinessChange(value) ==
    /\ value # scr.bookingData.business_id
    /\ BagCardinality(scr.pending) < MaxPending
    /\ scr' = [scr EXCEPT
                 !.bookingData = [@ EXCEPT !.business_id = value, !.service_id = NoId,
                                           !.staff_id = NoId],
                 !.services = NoId,
                 !.staffList = NoId,
                 !.pending = Add(@, BookingReq("services", value, NoBooking)),
                 !.op = BookingOp("handleBusinessChange", "")]
    /\ SessionUnchanged

\* the service select is rendered under {bookingData.business_id && ...}
\* and offers the items of `services`
HandleServiceChange(value) ==
    /\ scr.bookingData.business_id # NoId
    /\ scr.services # NoId /\ value = scr.services
    /\ value # scr.bookingData.service_id
    /\ BagCardinality(scr.pending) < MaxPending
    /\ scr' = [scr EXCEPT
                 !.bookingData = [@ EXCEPT !.service_id = value, !.staff_id = NoId],
                 !.staffList = NoId,
                 !.pending = Add(@, BookingReq("staff", value, NoBooking)),
                 !.op = BookingOp("handleServiceChange", "")]
    /\ SessionUnchanged

\* the staff select is rendered under {bookingData.service_id && ...} and
\* offers the items of `staffList`
HandleStaffChange(value) ==
    /\ scr.bookingData.service_id # NoId
    /\ scr.staffList # NoId /\ value = scr.staffList
    /\ value # scr.bookingData.staff_id
    /\ scr' = [scr EXCEPT !.bookingData = [@ EXCEPT !.staff_id = value],
                          !.op = BookingOp("handleStaffChange", "")]
    /\ SessionUnchanged

\* step 2 (date and time) is rendered under {bookingData.staff_id && ...}
HandleDateTime ==
    /\ scr.bookingData.staff_id # NoId
    /\ \E field \in {"date", "time"} :
          scr' = [scr EXCEPT
                    !.bookingData = IF field = "date" THEN [@ EXCEPT !.date = TRUE]
                                    ELSE [@ EXCEPT !.time = TRUE],
                    !.op = BookingOp("handleDateTime", "")]
    /\ SessionUnchanged

\* fetchServices / fetchStaff once the fetch settles: setServices(res.data)
\* or setStaffList(res.data), whatever is selected by then; console.error
\* on failure
ListSettles ==
    \E r \in BagToSet(scr.pending), st \in Statuses :
        /\ r.kind \in {"services", "staff"}
        /\ st # "401"
        /\ scr' = [scr EXCEPT
                     !.services = IF r.kind = "services" /\ st = "ok" THEN r.id ELSE @,
                     !.staffList = IF r.kind = "staff" /\ st = "ok" THEN r.id ELSE @,
                     !.pending = Remove(@, r),
                     !.op = BookingOp(r.kind, st)]
        /\ SessionUnchanged

\* handleBooking up to the await: the visitor has filled the required
\* inputs of step 3 and submits
HandleBooking ==
    /\ SubmitAvailable
    /\ BagCardinality(scr.pending) < MaxPending
    /\ scr' = [scr EXCEPT
                 !.loading = TRUE,
                 !.pending = Add(@, BookingReq("book", NoId, scr.bookingData)),
                 !.op = BookingOp("handleBooking", "")]
    /\ SessionUnchanged

\* handleBooking after the await: the form is reset after a 2xx, the error
\* toast is shown otherwise; finally setLoading(false)
BookingSettles ==
    \E r \in BagToSet(scr.pending), st \in Statuses :
        /\ r.kind = "book"
        /\ st # "401"
        /\ scr' = [scr EXCEPT
                     !.bookingData = IF st = "ok" THEN NoBooking ELSE @,
                     !.loading = FALSE,
                     !.toast = IF st = "ok" THEN "success" ELSE "error",
                     !.pending = Remove(@, r),
                     !.op = BookingOp("book", st)]
        /\ SessionUnchanged

NextBooking ==
    \/ \E value \in Biz : HandleBusinessChange(value)
    \/ \E value \in Biz : HandleServiceChange(value)
    \/ \E value \in Biz : HandleStaffChange(value)
    \/ HandleDateTime
    \/ ListSettles
    \/ HandleBooking
    \/ BookingSettles

SpecBooking == InitBooking /\ [][NextBooking]_vars

(***************************************************************************)
(* Claims                                                                  *)
(***************************************************************************)
\* homeRouteFor as the Access Policy states it
HomeRouteFor(role) ==
    IF role \in {"super_admin", "admin"} THEN <<"admin">>
    ELSE IF role = "business" THEN <<"business">>
    ELSE IF role = "staff" THEN <<"staff">>
    ELSE IF role = "client" THEN <<"client">>
    ELSE Root

\* the four guarded sections and the roles the guard around each admits
GuardedTops == { Top(p) : p \in GuardedPaths }
SectionAllowed(top) == MatchRoute(<< top >>).allowed
Navigated == last.op = "Navigate"
Arrived == last.op \in {"Navigate", "PageLoad", "CommitRedirect"}

\* C1 as stated: an authenticated Identity (loading = false) whose role the
\* guard of a section excludes, navigating to ANY path under that section,
\* ends on homeRouteFor(role) and outside the section.
C1_AnyPathUnderGuardedPrefix ==
    (/\ Navigated
     /\ last.arg.top \in GuardedTops
     /\ IsAuthenticated(user) /\ ~loading
     /\ RoleOf(user) \notin SectionAllowed(last.arg.top))
    => (path = HomeRouteFor(RoleOf(user)) /\ Top(path) # last.arg.top)

\* C1 amended: an authenticated Identity (loading = false) navigating to a
\* path that a Route under /admin, /business, /staff or /client declares, and
\* whose allowed roles exclude its role, ends on homeRouteFor(role); the
\* guarded screen is not on display.
C1_WrongRoleRedirectsHome ==
    (/\ Navigated
     /\ last.arg.guard = "protected"
     /\ IsAuthenticated(user) /\ ~loading
     /\ RoleOf(user) \notin SectionAllowed(last.arg.top))
    => (/\ last.arg.t = "redirect"
        /\ path = HomeRouteFor(RoleOf(user))
        /\ Top(path) # last.arg.top)

C1_Witness ==
    /\ Navigated
    /\ last.arg.top = "admin" /\ last.arg.guard = "protected" /\ last.arg.t = "redirect"
    /\ user = "client" /\ ~loading
    /\ path = <<"client">>

\* C2 as stated: with no Identity and loading = false, arriving at ANY path
\* under /admin, /business, /staff or /client ends on /login with the Login
\* screen on display.
C2_AnyPathUnderGuardedPrefix ==
    (/\ Arrived
     /\ last.arg.top \in GuardedTops
     /\ ~IsAuthenticated(user) /\ ~loading)
    => (path = <<"login">> /\ Mounted = "Login")

\* C2 amended: with no Identity and loading = false, arriving at a path that
\* a Route under /admin, /business, /staff or /client declares ends on /login
\* with the Login screen, not the guarded screen, on display.
C2_UnauthenticatedRedirectsToLogin ==
    (/\ Arrived
     /\ last.arg.guard = "protected"
     /\ ~IsAuthenticated(user) /\ ~loading)
    => (/\ last.arg.t = "redirect"
        /\ path = <<"login">>
        /\ Mounted = "Login")

C2_Witness ==
    /\ Navigated
    /\ last.arg.top = "business" /\ last.arg.guard = "protected" /\ last.arg.t = "redirect"
    /\ ~IsAuthenticated(user) /\ ~loading
    /\ path = <<"login">>

\* a response that came back through the `api` instance
ThroughApi ==
    \/ last.op \in {"login", "register", "me0", "me"}
    \/ last.op = "ScreenResponse" /\ last.arg.client = "api"

\* C3: in every reachable state, a missing durable token means a missing
\* Identity (user = null, isAuthenticated = false).
C3_TokenAbsentImpliesIdentityAbsent ==
    ls = NoToken => (user = NoUser /\ ~IsAuthenticated(user))

\* C4: once a 401 has come back through the API client the durable token is
\* gone and the redirect to /login has been issued exactly once in this
\* document, however many requests were answered 401.
C4_RedirectIssuedOnce ==
    /\ (ThroughApi /\ last.status = "401") => ls = NoToken
    /\ hrefAssigned <= 1

\* C5: whichever screen module sent the request, a 401 answer to it clears
\* the durable token and, unless the location is /login, forces the
\* navigation to /login.
C5_PolicyFiresForEveryScreen ==
    (last.op = "ScreenResponse" /\ last.status = "401")
    => (ls = NoToken /\ (path = <<"login">> \/ hrefAssigned > 0))

\* C6: a request leaves with Authorization: Bearer <token> exactly when a
\* durable token is present as it is sent, and with the URL, body and other
\* headers the caller supplied.
C6_BearerAddedRequestOtherwiseUnmodified ==
    fn.name = "send"
    => (/\ fn.out.auth = ls
        /\ fn.out.url = fn.in.config.url
        /\ fn.out.ctype = fn.in.config.ctype
        /\ fn.out.body = fn.in.config.body)

\* C7: while the identity fetch of application start is in flight loading is
\* true, and while loading is true every guarded and every auth route yields
\* the neutral loading state: no redirect, no screen.
C7_LoadingHoldsGuardsBack ==
    /\ InFlight(Req("me0", "AuthProvider")) => loading
    /\ loading => /\ \A p \in GuardedPaths \cup AuthPaths : Element(p, user, loading) = Spinner
                  /\ path \in GuardedPaths \cup AuthPaths => Mounted = ""
                  /\ (Arrived /\ last.arg.guard \in {"protected", "public"})
                        => (last.arg.t = "spinner" /\ Top(path) = last.arg.top)

C7_Witness ==
    /\ InFlight(Req("me0", "AuthProvider"))
    /\ loading
    /\ Navigated /\ last.arg.guard = "protected" /\ last.arg.t = "spinner"
    /\ path \in GuardedPaths

\* C8: an authenticated Identity (loading = false) navigating to /login or
\* /register ends on homeRouteFor(role), / for a role outside the five, and
\* the auth form is not on display.
C8_AuthenticatedLeavesAuthScreens ==
    (/\ Navigated
     /\ last.arg.guard = "public"
     /\ IsAuthenticated(user) /\ ~loading)
    => (/\ last.arg.t = "redirect"
        /\ path = HomeRouteFor(RoleOf(user))
        /\ Mounted \notin {"Login", "Register"})

C8_Witness ==
    /\ Navigated
    /\ last.arg.top = "register" /\ last.arg.guard = "public" /\ last.arg.t = "redirect"
    /\ user = "unknown" /\ ~loading
    /\ path = Root /\ Mounted = "Landing"

C10_HomeRouteAgrees ==
    fn.name = "home"
    => (/\ fn.out = << HomeRouteFor(fn.in), HomeRouteFor(fn.in), HomeRouteFor(fn.in) >>
        /\ fn.out[3] \in { <<"admin">>, <<"business">>, <<"staff">>, <<"client">>, Root })

C10_Witness ==
    /\ fn.name = "home"
    /\ fn.in = "absent"
    /\ fn.out = << Root, Root, Root >>

\* the Access Policy's table: the resources each role may use
PermittedSet(role) ==
    CASE role = "admin"    -> {"businesses", "users", "services", "staff", "appointments",
                               "clients", "finance", "reports"}
      [] role = "business" -> {"services", "staff", "appointments", "clients", "finance",
                               "reports"}
      [] role = "staff"    -> {"appointments", "calendar"}
      [] role = "client"   -> {"my_appointments"}
      [] OTHER             -> {}

\* C11: canAccess(resource) is true exactly when an Identity is present and
\* its role is super_admin or the resource is in the role's permitted set;
\* with no Identity, or a role outside the five, it is false for every
\* resource.
C11_CanAccessMatchesPolicy ==
    fn.name = "canAccess"
    => LET u == fn.in.user
           res == fn.in.resource
       IN /\ fn.out = (u # NoUser /\ (u = "super_admin" \/ res \in PermittedSet(u)))
          /\ (u = NoUser \/ u \notin KnownRoles) => fn.out = FALSE

C11_Witness ==
    /\ fn.name = "canAccess"
    /\ fn.in = [user |-> "staff", resource |-> "calendar"]
    /\ fn.out = TRUE

\* requests of screen module s in flight in bag b
FromScreen(b, s) == CopiesIn(Req("data", s), b) + CopiesIn(Req("profile", s), b)

C13_BusinessLoginLandsOnBusinessShell ==
    (last.op = "login" /\ last.status = "ok" /\ user = "business")
    => LET shown == { NavShell[i] : i \in 1..Len(NavShell) } IN
       /\ path = <<"business">>
       /\ path = BasePath(user)
       /\ LayoutMounted
       /\ shown = {"", "services", "staff", "appointments", "clients", "finance",
                   "reports", "settings"}
       /\ Len(NavShell) = 8
       /\ shown \cap {"businesses", "users", "platform-finance"} = {}

C13_Witness ==
    /\ last.op = "login" /\ last.status = "ok" /\ user = "business"
    /\ path = <<"business">> /\ Mounted = "Dashboard"
    /\ NavShell = <<"", "services", "staff", "appointments", "clients", "finance",
                    "reports", "settings">>

\* C14: a successful login leaves the durable token and the token state equal
\* to the returned access_token and the Identity equal to the returned user;
\* a login that fails leaves the durable token, the token state and the
\* Identity as they were when the response arrived.
C14_LoginSetsOrLeavesSession ==
    [][ /\ (last'.op = "login" /\ last'.status = "ok")
              => /\ last'.arg.tok \in Tokens
                 /\ ls' = last'.arg.tok /\ token' = last'.arg.tok
                 /\ user' = last'.arg.user /\ IsAuthenticated(user')
        /\ (last'.op = "login" /\ last'.status # "ok")
              => (ls' = ls /\ token' = token /\ user' = user)
      ]_vars

\* C15: from every session state logout() leaves the durable token, the
\* token state and the Identity absent, and a second logout() right after it
\* changes nothing; the session the layout's logout leaves is such a fixed
\* point.
C15_LogoutIdempotent ==
    LET once == LogoutOf(Session)
        twice == LogoutOf(once)
    IN /\ once.ls = NoToken /\ once.token = NoToken /\ once.user = NoUser
       /\ twice = once
       /\ last.op = "Logout" => (Session = once /\ ~IsAuthenticated(user))

C15_Witness ==
    /\ last.op = "Logout"
    /\ Session = [ls |-> NoToken, token |-> NoToken, user |-> NoUser, loading |-> FALSE]
    /\ LogoutOf(LogoutOf(Session)) = Session
    /\ inflight # EmptyBag

\* the request a step answered: the one the step took out of flight
Answered(r) == CopiesIn(r, inflight') < CopiesIn(r, inflight)

\* a response to a call a screen made through the `api` instance
ScreenCallThroughApi ==
    \/ last.op \in {"login", "register"}
    \/ last.op = "ScreenResponse" /\ last.arg.client = "api"

EntryMessage(d) ==
    IF d.msg \notin {Undefined, ""} THEN d.msg
    ELSE IF d.message \notin {Undefined, ""} THEN d.message
    ELSE Stringify(d)

\* what C17 says parseErrorMessage returns for a detail of each type
Expected(detail, defaultMessage) ==
    CASE detail.type = "string" -> detail.v
      [] detail.type = "array" ->
            Join([i \in 1..Len(detail.v) |-> EntryMessage(detail.v[i])])
      [] detail.type = "object" -> EntryMessage(detail.v)
      [] OTHER -> defaultMessage

\* C17 as stated: for every input the result is the detail when it is a
\* string, else the entries' messages joined by ', ' when it is a list, else
\* its msg / message / serialization when it is an object, else the default.
C17_EveryInput ==
    fn.name = "parse"
    => (~fn.out.threw /\ fn.out.v = Expected(fn.in.detail, fn.in.default))

\* C17 amended: the same, for a string detail that is not empty and a list
\* whose entries are not null; an empty string detail yields the default.
C17_ParsePrecedence ==
    fn.name = "parse"
    => LET d == fn.in.detail IN
       /\ (d.type = "string" /\ d.v = "") => fn.out = Returns(fn.in.default)
       /\ (/\ ~(d.type = "string" /\ d.v = "")
           /\ ~(d.type = "array" /\ \E i \in 1..Len(d.v) : d.v[i].isNull))
          => (~fn.out.threw /\ fn.out.v = Expected(d, fn.in.default))

C17_Witness ==
    /\ fn.name = "parse"
    /\ fn.in.detail.type = "array"
    /\ fn.in.detail.v = << Entry(FALSE, "field required", "bad input"),
                            Entry(FALSE, Undefined, Undefined) >>
    /\ fn.out = Returns("field required, {}")

\* C18: once a register has succeeded, whatever role the new Identity has,
\* the durable token and the token state hold the returned token, the
\* Identity is the returned user, the location is homeRouteFor(role), and a
\* guarded screen is on display only if its route admits that role.
C18_RegisterSettlesOnHome ==
    (last.op = "register" /\ last.status = "ok")
    => /\ ls = last.arg.tok /\ token = last.arg.tok /\ ls \in Tokens
       /\ user = last.arg.user /\ IsAuthenticated(user)
       /\ path = HomeRouteFor(RoleOf(user))
       /\ Element(path, user, loading).t = "render"
       /\ MatchRoute(path).guard = "protected"
             => RoleOf(user) \in MatchRoute(path).allowed
       /\ Element(<<"client">>, user, loading).t = "render" => RoleOf(user) = "client"

C18_Witness ==
    /\ last.op = "register" /\ last.status = "ok"
    /\ user = "business" /\ ls \in Tokens /\ token = ls
    /\ path = <<"business">> /\ Mounted = "Dashboard"


\* the list fetches among the requests of the Businesses screen in flight
Fetches(pending) == { r \in BagToSet(pending) : r.kind = "get" }

\* C19: a click on the status switch of a business sends exactly one update
\* for that business whose body is the negation of the flag shown; after a
\* 2xx the screen sends exactly one list fetch, which the backend serves
\* from its flags after the update, and the list shows what that fetch
\* returned (with no other request of the screen in flight meanwhile, the
\* list then equals the backend's flags and shows the flag that was sent);
\* after a failure no fetch is sent, the list is as before and the error
\* toast is up
C19_ToggleUpdatesThenRefetches ==
    [][LET o == scr'.op IN
       /\ o.name = "toggle" =>
             /\ scr'.pending = Add(scr.pending, PutReq(o.biz, ~scr.businesses[o.biz]))
             /\ scr'.businesses = scr.businesses
       /\ (o.name = "put" /\ o.status = "ok") =>
             /\ scr'.pending = Add(Remove(scr.pending, PutReq(o.biz, o.body)),
                                   GetReq(o.biz, o.body, NoList))
             /\ scr'.server[o.biz] = o.body
             /\ scr'.businesses = scr.businesses
       /\ (o.name = "served" /\ o.biz # 0) =>
             GetReq(o.biz, o.body, scr.server) \in Fetches(scr'.pending)
       /\ (o.name = "get" /\ o.status = "ok") =>
             /\ \E r \in Fetches(scr.pending) :
                   r.biz = o.biz /\ r.body = o.body /\ scr'.businesses = r.snap
             /\ (o.biz # 0 /\ ~scr.overlap) =>
                   /\ scr'.businesses = scr'.server
                   /\ scr'.businesses[o.biz] = o.body
       /\ (o.name = "put" /\ o.status # "ok") =>
             /\ scr'.pending = Remove(scr.pending, PutReq(o.biz, o.body))
             /\ scr'.businesses = scr.businesses
             /\ scr'.toast = "error"
      ]_vars

\* the list fetch that followed a successful toggle has settled, no other
\* request was in flight, and the row shows the flag that was sent
C19_Witness ==
    /\ scr.screen = "Businesses"
    /\ scr.op.name = "get" /\ scr.op.status = "ok" /\ scr.op.biz # 0
    /\ ~scr.overlap
    /\ scr.businesses # NoList
    /\ scr.businesses[scr.op.biz] = scr.op.body
    /\ scr.toast = "success"


\* C20: on each of the screens that join their fetches, once one of the
\* joined calls has failed no data variable has been set from a response
\* (each holds what it held before the handler ran) and the screen shows
\* an error
C20_JoinFailsWhole ==
    (scr.screen \in JoinScreens /\ \E c \in DOMAIN scr.calls : scr.calls[c] = "failed") =>
        /\ scr.data = scr.prior
        /\ scr.error


\* C23: every item of a role's menu other than the Dashboard item names a
\* resource canAccess grants to that role
C23_NavItemsPermitted ==
    fn.name = "nav" =>
        \A i \in DOMAIN fn.out.items :
            fn.out.items[i] # "" => CanAccess(fn.in, fn.out.items[i])

\* C24: in the desktop and in the mobile menu alike, an item is active
\* exactly when the pathname equals its full path, or it is not the
\* Dashboard item and the pathname starts with its full path
C24_ActiveLink ==
    fn.name = "isActive" =>
        LET full == FullPath(fn.in.user, fn.in.item)
            expected == \/ fn.in.pathname = full
                        \/ fn.in.item # "" /\ StartsWith(fn.in.pathname, full)
        IN  /\ fn.out.desktop = expected
            /\ fn.out.mobile = expected


\* C29: for each of the five roles, every item of the role's menu links to
\* a route the route table declares under a guard that admits the role, and
\* the guard renders the screen for a user of that role instead of
\* redirecting
C29_NavLinksAreOwnRoutes ==
    fn.name = "nav" =>
        \A i \in DOMAIN fn.out.items :
            LET item == fn.out.items[i]
                link == IF item # "" THEN fn.out.basePath \o << item >>
                        ELSE fn.out.basePath
            IN  /\ link \in GuardedPaths
                /\ fn.in \in MatchRoute(link).allowed
                /\ Element(link, fn.in, FALSE).t = "render"
                /\ Settle(link, fn.in, FALSE) = link

\* the menu of super_admin, whose links live under /admin, was evaluated
C29_Witness ==
    /\ fn.name = "nav" /\ fn.in = "super_admin"
    /\ fn.out.basePath = << "admin" >>
    /\ Len(fn.out.items) = 7


\* C30: a document that starts with a stored token, and so with loading
\* true, eventually has loading false once its /auth/me request is
\* answered; and loading never goes from false to true within a document
\* (only a new document, loaded by the user or by the forced redirect,
\* starts with loading true again)
C30_LoadingSettles ==
    /\ loading ~> ~loading
    /\ [][(~loading /\ loading') => last'.op \in {"PageLoad", "CommitRedirect"}]_vars

\* the /auth/me request of application start has been answered and a
\* later login has changed the token, with loading still false
C30_Witness ==
    /\ last.op = "login" /\ last.status = "ok"
    /\ token \in Tokens /\ InFlight(Req("me", "AuthProvider"))
    /\ ~loading


\* the fetches of unread notifications among the requests in flight
UnreadFetches(pending) ==
    BagCardinality(pending) - CopiesIn(ReadAllReq, pending)

C22_RejectionToastsAndKeepsState ==
    (scr.screen # "" /\ scr.outcome = "rejected") =>
        /\ ~scr.escaped
        /\ scr.toast = "error"
        /\ scr.data = "prior"


\* C28: a successful submit of the edit-user form leaves the is_active
\* flag the backend holds for that user as it was
C28_EditKeepsActiveFlag ==
    [][(scr'.op.name = "handleSubmit" /\ scr'.op.status = "ok") =>
          scr'.server[scr'.op.id].is_active = scr.server[scr'.op.id].is_active]_vars


\* C26: whenever the submit button of the booking form is available, the
\* business, the service and the staff member are all selected (and a
\* selected staff member implies a selected service, which implies a
\* selected business)
C26_SubmitNeedsSelections ==
    /\ SubmitAvailable =>
          /\ scr.bookingData.business_id # NoId
          /\ scr.bookingData.service_id # NoId
          /\ scr.bookingData.staff_id # NoId
    /\ scr.bookingData.staff_id # NoId => scr.bookingData.service_id # NoId
    /\ scr.bookingData.service_id # NoId => scr.bookingData.business_id # NoId

\* C27: while a business is selected the services list is empty or the
\* list of that business, and while a service is selected the staff list
\* is empty or the list of that service
C27_ListsMatchSelection ==
    /\ scr.bookingData.business_id # NoId =>
          scr.services \in {NoId, scr.bookingData.business_id}
    /\ scr.bookingData.service_id # NoId =>
          scr.staffList \in {NoId, scr.bookingData.service_id}


\* C21: a fetch of a screen that settles while another screen (or none) is
\* on display changes neither the route, nor the session (durable token,
\* token, Identity, loading), nor starts a navigation
C21_LastNavigationWins ==
    [][\A r \in BagToSet(inflight) :
          (last'.op = "ScreenResponse" /\ r.kind = "data" /\ Answered(r)
             /\ SenderOf(r) # Mounted) =>
              /\ path' = path
              /\ ls' = ls /\ token' = token /\ user' = user /\ loading' = loading
              /\ hrefAssigned' = hrefAssigned]_vars

====
